---- MODULE Spec2Model ----
(***************************************************************************)
(* Model of the PodNodeConstraints admission plugin                        *)
(* (pkg/scheduler/admission/podnodeconstraints/admission.go).              *)
(*                                                                         *)
(* The plugin holds a config (possibly nil) and an authorization client    *)
(* (nil until SetOpenshiftClient).  Admit decides one request: it          *)
(* classifies the request, extracts the pod spec from the object, matches  *)
(* the nodeSelector keys against the label blacklist and, when a nodeName  *)
(* or a blacklisted label is present, asks the authorization service       *)
(* whether the principal may create pods/binding.                          *)
(***************************************************************************)
EXTENDS Integers, Sequences, FiniteSets, TLC

VARIABLES config, client, pc, attr, gate, matchingLabels, queries, result, calls

vars == <<config, client, pc, attr, gate, matchingLabels, queries, result, calls>>

-----------------------------------------------------------------------------
(* Bounds of the model *)

\* longest label blacklist a config carries
MaxBlacklistLen == 2

-----------------------------------------------------------------------------
(* Values *)

\* error values; ErrNil is Go's nil error
ErrNil == [type |-> "nil", msg |-> ""]

Errorf(m) == [type |-> "Error", msg |-> m]

NewInternalError(m) == [type |-> "InternalError", msg |-> m]

NewForbidden(m) == [type |-> "Forbidden", msg |-> m]

\* a run-time panic (nil dereference): Admit does not return
Panic == [type |-> "panic", msg |-> "nil pointer dereference"]

GroupResource(g, r) == [Group |-> g, Resource |-> r]

GroupKind(g, k) == [Group |-> g, Kind |-> k]

\* String() of a GroupKind / GroupResource as printed by %v
GKString(gk) == IF gk.Group = "" THEN gk.Kind ELSE gk.Kind \o "." \o gk.Group

GRString(gr) == IF gr.Group = "" THEN gr.Resource ELSE gr.Resource \o "." \o gr.Group

Pods == GroupResource("", "pods")

resourcesToAdmit ==
    (Pods :> GroupKind("", "Pod"))
    @@ (GroupResource("", "replicationcontrollers") :> GroupKind("", "ReplicationController"))
    @@ (GroupResource("extensions", "deployments") :> GroupKind("extensions", "Deployment"))
    @@ (GroupResource("extensions", "replicasets") :> GroupKind("extensions", "ReplicaSet"))
    @@ (GroupResource("extensions", "jobs") :> GroupKind("extensions", "Job"))
    @@ (GroupResource("", "deploymentconfigs") :> GroupKind("", "DeploymentConfig"))

\* the five resources that embed a pod template
WrapperResources == (DOMAIN resourcesToAdmit) \ {Pods}

\* the operations the plugin is built to handle: NewHandler(Create, Update)
Handler == {"CREATE", "UPDATE"}

-----------------------------------------------------------------------------
(* Configs: nil, or a blacklist of label keys (duplicates allowed) *)

BlacklistLabels == {"bogus", "foo"}

NilConfig == [isNil |-> TRUE, NodeSelectorLabelBlacklist |-> <<>>]

SeqsUpTo(S, n) == UNION {[1..k -> S] : k \in 0..n}

Configs ==
    {NilConfig} \cup
    {[isNil |-> FALSE, NodeSelectorLabelBlacklist |-> bl] :
        bl \in SeqsUpTo(BlacklistLabels, MaxBlacklistLen)}

-----------------------------------------------------------------------------
(* Requests *)

SelectorKeys == {"bogus", "foo", "region"}

NodeNames == {"", "frank"}

SelectorValues == {"frank", "infra"}

\* a nodeSelector is a map from label keys to values; only the key bogus takes
\* both values, which keeps the set of requests small
NodeSelectors ==
    {ns \in UNION {[S -> SelectorValues] : S \in SUBSET SelectorKeys} :
        \A k \in DOMAIN ns : k # "bogus" => ns[k] = "frank"}

PodSpecs == [NodeName : NodeNames, NodeSelector : NodeSelectors]

EmptyPodSpec == [NodeName |-> "", NodeSelector |-> <<>>]

\* shapes whose pod template is held by value / by pointer (may be nil)
ValueShapes == {"Pod", "Deployment", "Job"}

PointerShapes == {"ReplicationController", "ReplicaSet", "DeploymentConfig"}

Objects ==
    {[shape |-> s, hasTemplate |-> TRUE, spec |-> ps] :
        s \in ValueShapes \cup PointerShapes, ps \in PodSpecs}
    \cup {[shape |-> s, hasTemplate |-> FALSE, spec |-> EmptyPodSpec] : s \in PointerShapes}
    \cup {[shape |-> "ResourceQuota", hasTemplate |-> FALSE, spec |-> EmptyPodSpec]}

\* the six recognized resources, resourcequotas, and deployments of the wrong group
Resources ==
    (DOMAIN resourcesToAdmit)
    \cup {GroupResource("", "resourcequotas"), GroupResource("", "deployments")}

\* the kinds a request for resource r declares: the kind the table gives r, and
\* two kinds that are not r's (Pod on a wrapper resource, ResourceQuota anywhere)
KindsFor(r) ==
    (IF r \in DOMAIN resourcesToAdmit THEN {resourcesToAdmit[r]} ELSE {})
    \cup {GroupKind("", "Pod"), GroupKind("", "ResourceQuota")}

\* the shapes of the object a request for resource r carries: the type of r's
\* kind, and three types that may not be r's
ShapesFor(r) ==
    (IF r \in DOMAIN resourcesToAdmit THEN {resourcesToAdmit[r].Kind} ELSE {})
    \cup {"Pod", "ReplicationController", "ResourceQuota"}

Operations == {"CREATE", "UPDATE", "DELETE"}

Subresources == {"", "status"}

Users == {[Name |-> "herpy", Groups |-> {"derpy"}]}

Attributes ==
    UNION {[resource : {r}, kind : KindsFor(r), operation : Operations,
            subresource : Subresources,
            object : {o \in Objects : o.shape \in ShapesFor(r)},
            name : {"test"}, namespace : {"default"}, userInfo : Users] :
           r \in Resources}

NoAttr ==
    [resource |-> GroupResource("", ""), kind |-> GroupKind("", ""), operation |-> "",
     subresource |-> "",
     object |-> [shape |-> "", hasTemplate |-> FALSE, spec |-> EmptyPodSpec],
     name |-> "", namespace |-> "", userInfo |-> [Name |-> "", Groups |-> {}]]

-----------------------------------------------------------------------------
(* The authorization service: what one LocalSubjectAccessReview returns *)

NilResponse == [present |-> FALSE, Allowed |-> FALSE]

Response(a) == [present |-> TRUE, Allowed |-> a]

GateErrors == {[type |-> "Transport", msg |-> "connection refused"],
               [type |-> "Transport", msg |-> "timeout"]}

GateOutcomes ==
    [resp : {NilResponse, Response(TRUE), Response(FALSE)}, err : {ErrNil} \cup GateErrors]

NoGate == [resp |-> NilResponse, err |-> ErrNil]

-----------------------------------------------------------------------------
(* shouldAdmitResource *)

\* a variant that compares the kind before looking the resource up
shouldAdmitResource_kindFirst(resource, kind) ==
    IF \A r \in DOMAIN resourcesToAdmit : resourcesToAdmit[r] # kind
    THEN [shouldAdmit |-> FALSE,
          err |-> Errorf("Unexpected resource kind " \o GKString(kind)
                         \o " for resource " \o GRString(resource))]
    ELSE [shouldAdmit |-> resource \in DOMAIN resourcesToAdmit, err |-> ErrNil]

\* a variant that never compares the declared kind
shouldAdmitResource_noKindCheck(resource, kind) ==
    [shouldAdmit |-> resource \in DOMAIN resourcesToAdmit, err |-> ErrNil]

shouldAdmitResource(resource, kind) ==
    IF resource \notin DOMAIN resourcesToAdmit
    THEN [shouldAdmit |-> FALSE, err |-> ErrNil]
    ELSE IF resourcesToAdmit[resource] # kind
    THEN [shouldAdmit |-> FALSE,
          err |-> Errorf("Unexpected resource kind " \o GKString(kind)
                         \o " for resource " \o GRString(resource))]
    ELSE [shouldAdmit |-> TRUE, err |-> ErrNil]

-----------------------------------------------------------------------------
(* getPodSpec: the type switch over the object *)

getPodSpec(object) ==
    IF object.shape \in ValueShapes
    THEN [ps |-> object.spec, err |-> ErrNil]
    ELSE IF object.shape \in PointerShapes
    THEN IF object.hasTemplate
         THEN [ps |-> object.spec, err |-> ErrNil]
         ELSE [ps |-> EmptyPodSpec, err |-> Panic]
    ELSE [ps |-> EmptyPodSpec,
          err |-> NewInternalError("No PodSpec available for supplied admission attribute")]

-----------------------------------------------------------------------------
(* admitPodSpec *)

\* the orders in which a range over the map may visit its keys
IterationOrders(nodeSelector) ==
    LET keys == DOMAIN nodeSelector
        n == Cardinality(keys)
    IN {o \in [1..n -> keys] : \A i, j \in 1..n : i # j => o[i] # o[j]}

RECURSIVE AppendEvery(_, _)
\* a variant of the inner loop without the equality test
AppendEvery(blacklist, nodeSelectorLabel) ==
    IF blacklist = <<>> THEN <<>>
    ELSE <<Head(blacklist)>> \o AppendEvery(Tail(blacklist), nodeSelectorLabel)

RECURSIVE FilterBlacklist(_, _)
\* the inner loop: every blacklist entry equal to the selector label
FilterBlacklist(blacklist, nodeSelectorLabel) ==
    IF blacklist = <<>> THEN <<>>
    ELSE (IF Head(blacklist) = nodeSelectorLabel THEN <<Head(blacklist)>> ELSE <<>>)
         \o FilterBlacklist(Tail(blacklist), nodeSelectorLabel)

RECURSIVE MatchingLabels_firstOnly(_, _)
\* a variant that leaves the outer loop at the first selector key that matches
MatchingLabels_firstOnly(order, blacklist) ==
    IF order = <<>> THEN <<>>
    ELSE IF FilterBlacklist(blacklist, Head(order)) # <<>>
    THEN FilterBlacklist(blacklist, Head(order))
    ELSE MatchingLabels_firstOnly(Tail(order), blacklist)

RECURSIVE MatchingLabels(_, _)
\* the outer loop over the selector keys in iteration order
MatchingLabels(order, blacklist) ==
    IF order = <<>> THEN <<>>
    ELSE FilterBlacklist(blacklist, Head(order)) \o MatchingLabels(Tail(order), blacklist)

RECURSIVE JoinLabels(_)
JoinLabels(labels) ==
    IF labels = <<>> THEN ""
    ELSE IF Len(labels) = 1 THEN Head(labels)
    ELSE Head(labels) \o " " \o JoinLabels(Tail(labels))

\* %v of a []string
FormatLabels(labels) == "[" \o JoinLabels(labels) \o "]"

\* a variant that asks for authorization on any non-empty selector
requiresAuth_anySelector(ps, labels) ==
    ps.NodeName # "" \/ DOMAIN ps.NodeSelector # {}

requiresAuth(ps, labels) ==
    ps.NodeName # "" \/ Len(labels) > 0

\* a variant that ignores the Allowed field of the response
gateDenies_ignoreAllowed(resp) == resp.present

gateDenies(resp) == resp.present /\ ~resp.Allowed

\* a variant whose switch cases are lists (a, b) instead of conjunctions
DenyReason_commas(ps, labels) ==
    IF ps.NodeName # "" \/ Len(labels) = 0
    THEN NewForbidden("node selection by nodeName is prohibited by policy for your role")
    ELSE IF ps.NodeName = "" \/ Len(labels) > 0
    THEN NewForbidden("node selection by label(s) " \o FormatLabels(labels)
                      \o " is prohibited by policy for your role")
    ELSE IF ps.NodeName # "" \/ Len(labels) > 0
    THEN NewForbidden("node selection by nodeName and label(s) " \o FormatLabels(labels)
                      \o " is prohibited by policy for your role")
    ELSE ErrNil

\* the switch that chooses the Forbidden error; falls through to nil
DenyReason(ps, labels) ==
    IF ps.NodeName # "" /\ Len(labels) = 0
    THEN NewForbidden("node selection by nodeName is prohibited by policy for your role")
    ELSE IF ps.NodeName = "" /\ Len(labels) > 0
    THEN NewForbidden("node selection by label(s) " \o FormatLabels(labels)
                      \o " is prohibited by policy for your role")
    ELSE IF ps.NodeName # "" /\ Len(labels) > 0
    THEN NewForbidden("node selection by nodeName and label(s) " \o FormatLabels(labels)
                      \o " is prohibited by policy for your role")
    ELSE ErrNil

\* a variant that names the namespace where the object's name belongs
checkPodsBindAccess_namespaceAsName(a) ==
    [Verb |-> "create", Resource |-> "pods/binding", ResourceName |-> a.namespace,
     Namespace |-> a.namespace, User |-> a.userInfo.Name, Groups |-> a.userInfo.Groups]

\* the LocalSubjectAccessReview built for a request
checkPodsBindAccess(a) ==
    [Verb |-> "create", Resource |-> "pods/binding", ResourceName |-> a.name,
     Namespace |-> a.namespace, User |-> a.userInfo.Name, Groups |-> a.userInfo.Groups]

\* a variant that drops the error of the authorization call
gateError_swallowed(g) == ErrNil

\* the error of the authorization call, returned as it is
gateError(g) == g.err

Outcome(e, labels, qs, asked) ==
    [err |-> e, matchingLabels |-> labels, queries |-> qs, gate |-> asked]

\* what admitPodSpec returns once the authorization call has returned g
afterGate(ps, labels, g) ==
    IF gateError(g) # ErrNil THEN gateError(g)
    ELSE IF gateDenies(g.resp) THEN DenyReason(ps, labels)
    ELSE ErrNil

admitPodSpec(cfg, cl, a, ps, order, g) ==
    LET labels == IF DOMAIN ps.NodeSelector # {}
                  THEN MatchingLabels(order, cfg.NodeSelectorLabelBlacklist)
                  ELSE <<>>
    IN IF requiresAuth(ps, labels)
       THEN IF cl = "nil"
            THEN Outcome(Panic, labels, <<>>, NoGate)
            ELSE Outcome(afterGate(ps, labels, g), labels, <<checkPodsBindAccess(a)>>, g)
       ELSE Outcome(ErrNil, labels, <<>>, NoGate)

-----------------------------------------------------------------------------
(* Admit *)

\* a variant without the nil-config case
bypass_noNilCheck(cfg, a) == a.subresource # ""

\* a variant without the subresource case
bypass_noSubresourceCheck(cfg, a) == cfg.isNil

\* the first switch of Admit
bypass(cfg, a) == cfg.isNil \/ a.subresource # ""

\* a variant that skips every non-Create operation, whatever the resource
onlyCreate_allResources(a) == a.operation # "CREATE"

\* a variant that evaluates pods on every operation
onlyCreate_never(a) == FALSE

\* "Only check Create operation on pods"
onlyCreate(a) == a.resource = Pods /\ a.operation # "CREATE"

AdmitOutcome(cfg, cl, a, order, g) ==
    IF bypass(cfg, a) THEN Outcome(ErrNil, <<>>, <<>>, NoGate)
    ELSE LET sa == shouldAdmitResource(a.resource, a.kind)
         IN IF sa.err # ErrNil THEN Outcome(sa.err, <<>>, <<>>, NoGate)
            ELSE IF ~sa.shouldAdmit THEN Outcome(ErrNil, <<>>, <<>>, NoGate)
            ELSE IF onlyCreate(a) THEN Outcome(ErrNil, <<>>, <<>>, NoGate)
            ELSE LET got == getPodSpec(a.object)
                 IN IF got.err = ErrNil
                    THEN admitPodSpec(cfg, cl, a, got.ps, order, g)
                    ELSE Outcome(got.err, <<>>, <<>>, NoGate)

\* the call sends a query to the authorization service
Asks(cfg, cl, a, order) == AdmitOutcome(cfg, cl, a, order, NoGate).queries # <<>>

\* the request reaches admitPodSpec
Evaluated(cfg, a) ==
    /\ ~bypass(cfg, a)
    /\ shouldAdmitResource(a.resource, a.kind).shouldAdmit
    /\ ~onlyCreate(a)
    /\ getPodSpec(a.object).err = ErrNil

-----------------------------------------------------------------------------
(* The state machine *)

\* the calls of Admit that may be in progress at the same time
Procs == {"c1", "c2"}

\* the locals of a call of Admit that has not begun
IdleCall ==
    [pc |-> "idle", attr |-> NoAttr, order |-> <<>>, matchingLabels |-> <<>>,
     queries |-> <<>>, gate |-> NoGate, result |-> ErrNil]

Init ==
    /\ config \in Configs
    /\ client = "nil"
    /\ pc = "idle"
    /\ attr = NoAttr
    /\ gate = NoGate
    /\ matchingLabels = <<>>
    /\ queries = <<>>
    /\ result = ErrNil
    /\ calls = [p \in Procs |-> IdleCall]

SetOpenshiftClient(c) ==
    /\ pc = "idle"
    /\ client' = c
    /\ UNCHANGED <<config, pc, attr, gate, matchingLabels, queries, result, calls>>

\* a variant that reports no missing client
Validate_neverFails ==
    /\ pc = "idle"
    /\ result' = ErrNil
    /\ pc' = "validated"
    /\ UNCHANGED <<config, client, attr, gate, matchingLabels, queries, calls>>

\* one call of Validate
Validate ==
    /\ pc = "idle"
    /\ result' = IF client = "nil"
                 THEN Errorf("PodNodeConstraints needs an Openshift client")
                 ELSE ErrNil
    /\ pc' = "validated"
    /\ UNCHANGED <<config, client, attr, gate, matchingLabels, queries, calls>>

\* a variant that filters the blacklist in place (matchingLabels aliasing the
\* blacklist's backing array)
Admit_filtersInPlace(a, order, g) ==
    /\ pc = "idle"
    /\ LET out == AdmitOutcome(config, client, a, order, g)
       IN /\ result' = out.err
          /\ matchingLabels' = out.matchingLabels
          /\ queries' = out.queries
          /\ gate' = out.gate
          /\ config' = [config EXCEPT !.NodeSelectorLabelBlacklist =
                            out.matchingLabels
                            \o SubSeq(@, Len(out.matchingLabels) + 1, Len(@))]
    /\ attr' = a
    /\ pc' = "returned"
    /\ UNCHANGED <<client, calls>>

\* one call of Admit, with the response the authorization service gives if asked
Admit(a, order, g) ==
    /\ pc = "idle"
    /\ LET out == AdmitOutcome(config, client, a, order, g)
       IN /\ result' = out.err
          /\ matchingLabels' = out.matchingLabels
          /\ queries' = out.queries
          /\ gate' = out.gate
    /\ attr' = a
    /\ pc' = "returned"
    /\ UNCHANGED <<config, client, calls>>

\* the caller takes the result; the locals of the call are gone
Return ==
    /\ pc \in {"returned", "validated"}
    /\ pc' = "idle"
    /\ attr' = NoAttr
    /\ gate' = NoGate
    /\ matchingLabels' = <<>>
    /\ queries' = <<>>
    /\ result' = ErrNil
    /\ UNCHANGED <<config, client, calls>>

\* a request arrives: its attributes, the order in which the selector map is
\* ranged over, and the answer of the authorization service if it is asked
AdmitRequest ==
    /\ pc = "idle"
    /\ \E a \in Attributes :
         \E order \in IterationOrders(a.object.spec.NodeSelector) :
           IF Asks(config, client, a, order)
           THEN \E g \in GateOutcomes : Admit(a, order, g)
           ELSE Admit(a, order, NoGate)

Next ==
    \/ \E c \in {"nil", "client"} : SetOpenshiftClient(c)
    \/ Validate
    \/ AdmitRequest
    \/ Return

Spec == Init /\ [][Next]_vars

-----------------------------------------------------------------------------
(* Calls of Admit running at the same time on one plugin.  A call reads the *)
(* config and the client, keeps everything else in its own locals, and     *)
(* blocks only in the authorization call.                                  *)

\* who asks, and about which object
Identities ==
    {[name |-> "test", namespace |-> "default",
      userInfo |-> [Name |-> "herpy", Groups |-> {"derpy"}]],
     [name |-> "web", namespace |-> "prod",
      userInfo |-> [Name |-> "system:serviceaccount:openshift-infra:daemonset-controller",
                    Groups |-> {"system:serviceaccounts",
                                "system:serviceaccounts:openshift-infra"}]]}

\* the classifications a concurrent call is drawn from: evaluated, bypassed
\* (pod update, subresource, unrecognized resource) and kind mismatch
ConcRequests ==
    {[resource |-> Pods, kind |-> GroupKind("", "Pod"),
      operation |-> "CREATE", subresource |-> "", shape |-> "Pod"],
     [resource |-> Pods, kind |-> GroupKind("", "Pod"),
      operation |-> "UPDATE", subresource |-> "", shape |-> "Pod"],
     [resource |-> GroupResource("extensions", "deployments"),
      kind |-> GroupKind("extensions", "Deployment"),
      operation |-> "UPDATE", subresource |-> "", shape |-> "Deployment"],
     [resource |-> Pods, kind |-> GroupKind("", "Pod"),
      operation |-> "CREATE", subresource |-> "status", shape |-> "Pod"],
     [resource |-> GroupResource("", "resourcequotas"), kind |-> GroupKind("", "ResourceQuota"),
      operation |-> "CREATE", subresource |-> "", shape |-> "Pod"],
     [resource |-> Pods, kind |-> GroupKind("", "ReplicationController"),
      operation |-> "CREATE", subresource |-> "", shape |-> "Pod"]}

ConcSelectors ==
    {ns \in NodeSelectors :
        DOMAIN ns \in {{}, {"bogus"}, {"bogus", "foo"}} /\ \A k \in DOMAIN ns : ns[k] = "frank"}

ConcAttributes ==
    {[resource |-> rq.resource, kind |-> rq.kind, operation |-> rq.operation,
      subresource |-> rq.subresource,
      object |-> [shape |-> rq.shape, hasTemplate |-> TRUE,
                  spec |-> [NodeName |-> nn, NodeSelector |-> ns]],
      name |-> id.name, namespace |-> id.namespace, userInfo |-> id.userInfo] :
        rq \in ConcRequests, nn \in NodeNames, ns \in ConcSelectors, id \in Identities}

\* the answers of the authorization service to a concurrent call
ConcGateOutcomes ==
    {[resp |-> Response(TRUE), err |-> ErrNil],
     [resp |-> Response(FALSE), err |-> ErrNil],
     [resp |-> NilResponse, err |-> ErrNil],
     [resp |-> NilResponse, err |-> [type |-> "Transport", msg |-> "timeout"]]}

InitConc ==
    /\ config \in Configs
    /\ client = "client"
    /\ pc = "idle"
    /\ attr = NoAttr
    /\ gate = NoGate
    /\ matchingLabels = <<>>
    /\ queries = <<>>
    /\ result = ErrNil
    /\ calls = [p \in Procs |-> IdleCall]

\* a variant that answers from the response another call has received
answerFor_cached(cs, p, g) ==
    IF \E q \in Procs \ {p} : cs[q].pc = "done" /\ cs[q].queries # <<>>
    THEN cs[CHOOSE q \in Procs \ {p} : cs[q].pc = "done" /\ cs[q].queries # <<>>].gate
    ELSE g

\* the response a call works with is the one its own query received
answerFor(cs, p, g) == g

\* call p runs up to the authorization call, or to its return if none is made
BeginAdmit(p) ==
    /\ calls[p].pc = "idle"
    /\ \E a \in ConcAttributes :
         \E order \in IterationOrders(a.object.spec.NodeSelector) :
           LET pre == AdmitOutcome(config, client, a, order, NoGate)
           IN calls' = [calls EXCEPT ![p] =
                  [pc |-> IF pre.queries # <<>> THEN "asking" ELSE "done",
                   attr |-> a, order |-> order,
                   matchingLabels |-> pre.matchingLabels,
                   queries |-> pre.queries, gate |-> NoGate,
                   result |-> IF pre.queries # <<>> THEN ErrNil ELSE pre.err]]
    /\ UNCHANGED <<config, client, pc, attr, gate, matchingLabels, queries, result>>

\* the authorization call of p returns g and p runs to its return
GateReply(p) ==
    /\ calls[p].pc = "asking"
    /\ \E g \in ConcGateOutcomes :
         calls' = [calls EXCEPT ![p].pc = "done", ![p].gate = g,
                                ![p].result = afterGate(getPodSpec(calls[p].attr.object).ps,
                                                        calls[p].matchingLabels,
                                                        answerFor(calls, p, g))]
    /\ UNCHANGED <<config, client, pc, attr, gate, matchingLabels, queries, result>>

\* the caller of p takes the result
ReturnAdmit(p) ==
    /\ calls[p].pc = "done"
    /\ calls' = [calls EXCEPT ![p] = IdleCall]
    /\ UNCHANGED <<config, client, pc, attr, gate, matchingLabels, queries, result>>

NextConc ==
    \E p \in Procs : BeginAdmit(p) \/ GateReply(p) \/ ReturnAdmit(p)

SpecConc == InitConc /\ [][NextConc]_vars

-----------------------------------------------------------------------------
(* Properties *)

Returned == pc = "returned"

Allowed == result = ErrNil

NoQuery == queries = <<>>

Asked == queries # <<>>

Spec_ps == attr.object.spec

Blacklist == config.NodeSelectorLabelBlacklist

\* the blacklisted keys of the request's nodeSelector
BlacklistedKeys == {k \in DOMAIN Spec_ps.NodeSelector : \E i \in 1..Len(Blacklist) : Blacklist[i] = k}

\* C1: with a nil config Admit returns nil for every request and asks the
\* authorization service nothing.
C1_NilConfigAllows ==
    (Returned /\ config.isNil) => (Allowed /\ NoQuery)

C1_Witness ==
    /\ Returned /\ config.isNil /\ client = "client"
    /\ attr.resource = Pods /\ attr.kind = resourcesToAdmit[Pods]
    /\ attr.operation = "CREATE" /\ attr.subresource = ""
    /\ attr.object.shape = "Pod" /\ Spec_ps.NodeName = "frank"
    /\ Allowed /\ NoQuery

\* C2 (as stated): with a nil config or an empty blacklist, a request whose
\* pod spec is evaluated is allowed without a query, whatever its nodeName and
\* nodeSelector.
C2_EmptyBlacklistAlwaysAllows ==
    (/\ Returned
     /\ client = "client"
     /\ config.isNil \/ (Blacklist = <<>> /\ Evaluated(config, attr)))
    => (Allowed /\ NoQuery)

\* C2 (amended): with a nil config every request is allowed; with an empty
\* blacklist an evaluated request whose nodeName is empty is allowed whatever
\* its nodeSelector; in both cases no query is sent.
C2_EmptyBlacklistAllowsWithoutNodeName ==
    (/\ Returned
     /\ config.isNil
        \/ (Blacklist = <<>> /\ Evaluated(config, attr) /\ Spec_ps.NodeName = ""))
    => (Allowed /\ NoQuery)

C2_Witness ==
    /\ Returned /\ ~config.isNil /\ Blacklist = <<>> /\ client = "client"
    /\ Evaluated(config, attr)
    /\ Spec_ps.NodeName = "" /\ DOMAIN Spec_ps.NodeSelector = {"bogus", "foo"}
    /\ Allowed /\ NoQuery

\* C3: an evaluated request with an empty nodeName and no blacklisted
\* nodeSelector key is allowed and no query is sent.
C3_NoTargetingAllows ==
    (/\ Returned /\ Evaluated(config, attr)
     /\ Spec_ps.NodeName = "" /\ BlacklistedKeys = {})
    => (Allowed /\ NoQuery)

C3_Witness ==
    /\ Returned /\ Evaluated(config, attr) /\ client = "client"
    /\ Blacklist = <<"bogus">>
    /\ Spec_ps.NodeName = "" /\ DOMAIN Spec_ps.NodeSelector = {"foo", "region"}
    /\ Allowed /\ NoQuery

GateDenied == Asked /\ gate.err = ErrNil /\ gate.resp = Response(FALSE)

GateAllowed == Asked /\ gate.err = ErrNil /\ gate.resp = Response(TRUE)

\* C4: when the authorization service answers allowed=false, Admit returns a
\* Forbidden error whose reason is chosen by case: nodeName only, labels only,
\* or both; one of the three cases always applies.
C4_DenyReasons ==
    GateDenied =>
        LET hasName == Spec_ps.NodeName # ""
            hasLabels == matchingLabels # <<>>
        IN /\ hasName \/ hasLabels
           /\ result.type = "Forbidden"
           /\ (hasName /\ ~hasLabels) =>
                result.msg = "node selection by nodeName is prohibited by policy for your role"
           /\ (~hasName /\ hasLabels) =>
                result.msg = "node selection by label(s) " \o FormatLabels(matchingLabels)
                             \o " is prohibited by policy for your role"
           /\ (hasName /\ hasLabels) =>
                result.msg = "node selection by nodeName and label(s) "
                             \o FormatLabels(matchingLabels)
                             \o " is prohibited by policy for your role"
           /\ (hasName /\ matchingLabels = <<"bogus">>) =>
                result.msg = "node selection by nodeName and label(s) [bogus] is prohibited by policy for your role"
           /\ (~hasName /\ matchingLabels = <<"bogus">>) =>
                result.msg = "node selection by label(s) [bogus] is prohibited by policy for your role"

C4_Witness ==
    /\ Returned /\ GateDenied
    /\ Spec_ps.NodeName = "frank" /\ matchingLabels = <<"bogus">>
    /\ result.type = "Forbidden"

\* C5: when the authorization service answers allowed=true, Admit returns nil.
C5_GateAllowedAllows ==
    GateAllowed => Allowed

C5_Witness ==
    /\ Returned /\ GateAllowed
    /\ Spec_ps.NodeName = "frank" /\ matchingLabels = <<"bogus", "foo">>
    /\ Allowed

\* C6 (as stated): an Update of the pods resource returns nil without a query,
\* whatever the declared kind.
C6_PodUpdateBypassedAnyKind ==
    (Returned /\ attr.resource = Pods /\ attr.operation = "UPDATE")
    => (Allowed /\ NoQuery)

\* C6 (amended): an Update of the pods resource whose declared kind is Pod
\* returns nil without a query.
C6_PodUpdateBypassed ==
    (/\ Returned /\ attr.resource = Pods /\ attr.operation = "UPDATE"
     /\ attr.kind = GroupKind("", "Pod"))
    => (Allowed /\ NoQuery)

C6_Witness ==
    /\ Returned /\ ~config.isNil /\ client = "client"
    /\ attr.resource = Pods /\ attr.operation = "UPDATE"
    /\ attr.kind = GroupKind("", "Pod") /\ attr.subresource = ""
    /\ attr.object.shape = "Pod" /\ Spec_ps.NodeName = "frank"
    /\ Allowed /\ NoQuery

OtherOperation(op) == IF op = "CREATE" THEN "UPDATE" ELSE "CREATE"

\* C7: on a wrapper resource, Create and Update of the same object by the same
\* principal under the same config and gate answer give the same result and
\* the same query.
C7_UpdateLikeCreate ==
    (/\ Returned /\ attr.resource \in WrapperResources
     /\ attr.operation \in {"CREATE", "UPDATE"})
    => \E order \in IterationOrders(Spec_ps.NodeSelector) :
         LET other == AdmitOutcome(config, client,
                                   [attr EXCEPT !.operation = OtherOperation(@)],
                                   order, gate)
         IN other.err = result /\ other.queries = queries

C7_Witness ==
    /\ Returned /\ attr.resource \in WrapperResources /\ attr.operation = "UPDATE"
    /\ GateDenied /\ result.type = "Forbidden"

\* C8: a request for a resource that is not one of the six recognized ones
\* returns nil without a query.
C8_UnrecognizedResourceBypassed ==
    (Returned /\ attr.resource \notin DOMAIN resourcesToAdmit)
    => (Allowed /\ NoQuery)

C8_Witness ==
    /\ Returned /\ ~config.isNil /\ client = "client"
    /\ attr.resource = GroupResource("", "resourcequotas")
    /\ attr.kind = GroupKind("", "ResourceQuota") /\ attr.subresource = ""
    /\ attr.operation = "CREATE"
    /\ attr.object.shape = "Pod" /\ Spec_ps.NodeName = "frank"
    /\ Allowed /\ NoQuery

\* C9: when the authorization query fails, Admit returns that error itself.
C9_GateErrorPropagates ==
    (Returned /\ Asked /\ gate.err # ErrNil) => result = gate.err

C9_Witness ==
    /\ Returned /\ Asked
    /\ gate.err = [type |-> "Transport", msg |-> "timeout"]
    /\ gate.resp = Response(TRUE)
    /\ result = gate.err

\* C10: an evaluated request that requires authorization returns nil only if
\* the authorization service returned a response with allowed=true and no
\* error.
C10_FailClosed ==
    (/\ Returned /\ Evaluated(config, attr)
     /\ Spec_ps.NodeName # "" \/ BlacklistedKeys # {}
     /\ Allowed)
    => (gate.err = ErrNil /\ gate.resp = Response(TRUE))

\* C11: Admit is deterministic: whatever order the range over the
\* nodeSelector takes, the same config, request and gate answer give the
\* result of this call.
C11_Deterministic ==
    Returned =>
        \A order \in IterationOrders(Spec_ps.NodeSelector) :
            AdmitOutcome(config, client, attr, order, gate).err = result

\* position of the first occurrence of a label in the blacklist
FirstIndex(label) ==
    CHOOSE i \in 1..Len(Blacklist) :
        Blacklist[i] = label /\ \A j \in 1..(i - 1) : Blacklist[j] # label

\* C14: the matched labels printed in a denial are listed in the declared
\* order of the blacklist.
C14_BlacklistOrder ==
    (Returned /\ result.type = "Forbidden") =>
        \A i, j \in 1..Len(matchingLabels) :
            i < j => FirstIndex(matchingLabels[i]) <= FirstIndex(matchingLabels[j])

\* C15: each matched label occurs at most once in the matched labels of a
\* denial.
C15_NoDuplicateLabels ==
    (Returned /\ result.type = "Forbidden") =>
        \A i, j \in 1..Len(matchingLabels) :
            i # j => matchingLabels[i] # matchingLabels[j]

KindMismatch ==
    /\ ~config.isNil /\ attr.subresource = ""
    /\ attr.resource \in DOMAIN resourcesToAdmit
    /\ attr.kind # resourcesToAdmit[attr.resource]

\* C17: with a non-nil config and an empty subresource, a recognized resource
\* with a declared kind other than the expected one gives an error that is not
\* Forbidden, for every operation, before any pod spec is read and without a
\* query.
C17_KindMismatchIsError ==
    (Returned /\ KindMismatch) =>
        /\ result.type = "Error"
        /\ result.msg = "Unexpected resource kind " \o GKString(attr.kind)
                        \o " for resource " \o GRString(attr.resource)
        /\ matchingLabels = <<>>
        /\ NoQuery

C17_Witness ==
    /\ Returned /\ KindMismatch /\ client = "client"
    /\ attr.resource = GroupResource("", "replicationcontrollers")
    /\ attr.kind = GroupKind("", "Pod")
    /\ attr.operation = "DELETE"
    /\ attr.object.shape = "ReplicationController" /\ ~attr.object.hasTemplate
    /\ result.msg = "Unexpected resource kind Pod for resource replicationcontrollers"

\* the request passes the classification and its object is read
Classified ==
    /\ ~bypass(config, attr)
    /\ shouldAdmitResource(attr.resource, attr.kind).shouldAdmit
    /\ ~onlyCreate(attr)

\* C18: when the object is not of the shape of the request's resource, Admit
\* returns an internal error and sends no query (plugin with a client, object
\* with its pod template set if it has one).
C18_ShapeMismatchIsInternalError ==
    (/\ Returned /\ Classified /\ client = "client"
     /\ attr.object.shape \in PointerShapes => attr.object.hasTemplate
     /\ Spec_ps.NodeName # ""
     /\ attr.object.shape # resourcesToAdmit[attr.resource].Kind)
    => (result.type = "InternalError" /\ NoQuery)

\* C19: a request with a non-empty subresource returns nil without a query.
C19_SubresourceBypassed ==
    (Returned /\ attr.subresource # "") => (Allowed /\ NoQuery)

C19_Witness ==
    /\ Returned /\ ~config.isNil /\ client = "client"
    /\ attr.subresource = "status"
    /\ attr.resource = Pods /\ attr.kind = GroupKind("", "ResourceQuota")
    /\ attr.operation = "CREATE"
    /\ attr.object.shape = "Pod" /\ Spec_ps.NodeName = "frank"
    /\ DOMAIN Spec_ps.NodeSelector = {"bogus"}
    /\ Allowed /\ NoQuery

\* C12: no step changes the config, and the request Admit leaves behind is
\* the request it decided: deciding it again under the config left behind
\* gives the same matched labels, query and result.
C12_AdmitHasNoEffect ==
    [][/\ config' = config
       /\ pc' = "returned" =>
            \E order \in IterationOrders(attr'.object.spec.NodeSelector) :
                AdmitOutcome(config', client', attr', order, gate')
                    = Outcome(result', matchingLabels', queries', gate')]_vars

C12_Witness ==
    /\ Returned /\ result.type = "Forbidden"
    /\ Blacklist = <<"bogus", "foo">> /\ matchingLabels = <<"foo">>
    /\ DOMAIN Spec_ps.NodeSelector = {"foo", "region"}

\* the request with another nodeSelector
WithSelector(ns) == [attr EXCEPT !.object.spec.NodeSelector = ns]

\* the blacklisted keys of a nodeSelector
BlacklistedKeysOf(ns) ==
    {k \in DOMAIN ns : \E i \in 1..Len(Blacklist) : Blacklist[i] = k}

\* C16: the matched labels are exactly the selector keys that are in the
\* blacklist; a selector with the same blacklisted keys, whatever its values
\* and its other keys, gives the same matched labels and the same result.
C16_MatchedLabelsAreBlacklistedKeys ==
    (Returned /\ Evaluated(config, attr)) =>
        /\ {matchingLabels[i] : i \in 1..Len(matchingLabels)} = BlacklistedKeys
        /\ \A ns \in NodeSelectors :
             BlacklistedKeysOf(ns) = BlacklistedKeys =>
                \E order \in IterationOrders(ns) :
                    LET other == AdmitOutcome(config, client, WithSelector(ns), order, gate)
                    IN other.err = result /\ other.matchingLabels = matchingLabels

C16_Witness ==
    /\ Returned /\ Evaluated(config, attr) /\ result.type = "Forbidden"
    /\ Blacklist = <<"foo", "bogus">>
    /\ DOMAIN Spec_ps.NodeSelector = SelectorKeys
    /\ Spec_ps.NodeSelector["bogus"] = "infra"
    /\ matchingLabels = <<"bogus", "foo">>

\* C13: under any interleaving, a finished call has the matched labels, the
\* query and the result that Admit alone gives for its own request, the
\* config and the answer to its own query.
C13_CallsAreIndependent ==
    \A p \in Procs :
        calls[p].pc = "done" =>
            LET alone == AdmitOutcome(config, client, calls[p].attr, calls[p].order,
                                      calls[p].gate)
            IN /\ calls[p].result = alone.err
               /\ calls[p].matchingLabels = alone.matchingLabels
               /\ calls[p].queries = alone.queries

\* c1 waits for the authorization service while c2, asking for another
\* principal, has been denied
C13_Witness ==
    /\ calls["c1"].pc = "asking"
    /\ calls["c2"].pc = "done" /\ calls["c2"].result.type = "Forbidden"
    /\ calls["c1"].attr.userInfo # calls["c2"].attr.userInfo
    /\ calls["c1"].matchingLabels # calls["c2"].matchingLabels

\* the request of a call is evaluated and names a node or a blacklisted label
NeedsAuthorization(a) ==
    /\ Evaluated(config, a)
    /\ \/ a.object.spec.NodeName # ""
       \/ \E k \in DOMAIN a.object.spec.NodeSelector :
            \E i \in 1..Len(Blacklist) : Blacklist[i] = k

\* C20: a call sends at most one query, and exactly one when its request is
\* evaluated and requires authorization: create on pods/binding, named after
\* the request, in the request's namespace, for the request's user and
\* groups.  It stays the only query of the call once it has been answered.
C20_OneQueryPerCall ==
    \A p \in Procs :
        calls[p].pc # "idle" =>
            /\ Len(calls[p].queries) <= 1
            /\ NeedsAuthorization(calls[p].attr) =>
                 calls[p].queries =
                    << [Verb |-> "create", Resource |-> "pods/binding",
                        ResourceName |-> calls[p].attr.name,
                        Namespace |-> calls[p].attr.namespace,
                        User |-> calls[p].attr.userInfo.Name,
                        Groups |-> calls[p].attr.userInfo.Groups] >>
            /\ ~NeedsAuthorization(calls[p].attr) => calls[p].queries = <<>>

\* c1 got an error from the service and did not ask again; c2 has asked for
\* another object and principal
C20_Witness ==
    /\ calls["c1"].pc = "done" /\ calls["c1"].gate.err # ErrNil
    /\ Len(calls["c1"].queries) = 1 /\ calls["c1"].queries[1].ResourceName = "test"
    /\ calls["c2"].pc = "asking"
    /\ Len(calls["c2"].queries) = 1 /\ calls["c2"].queries[1].ResourceName = "web"
    /\ calls["c2"].queries[1].Namespace = "prod"

\* C21: a request whose operation is neither Create nor Update returns nil
\* without a query, on every resource (plugin with a client, wrapper resource
\* of its declared kind carrying the object of that kind, the pod template set
\* and naming a node).
C21_OtherOperationBypassed ==
    (/\ Returned /\ attr.operation \notin Handler
     /\ client = "client"
     /\ attr.resource \in WrapperResources
     /\ attr.kind = resourcesToAdmit[attr.resource]
     /\ attr.object.shape = resourcesToAdmit[attr.resource].Kind
     /\ attr.object.hasTemplate
     /\ Spec_ps.NodeName # "")
    => (Allowed /\ NoQuery)

\* C22: Validate changes nothing and returns the error "PodNodeConstraints
\* needs an Openshift client" exactly when the client is nil, nil otherwise
\* (so it fails on the plugin as built and succeeds whenever a client is
\* installed); a step that changes the client (SetOpenshiftClient) changes
\* nothing else, the config included.
C22_ValidateReflectsClient ==
    [][/\ pc' = "validated" =>
            /\ client' = client /\ config' = config
            /\ client' = "nil" =>
                 result' = Errorf("PodNodeConstraints needs an Openshift client")
            /\ client' # "nil" => result' = ErrNil
       /\ client' # client =>
            UNCHANGED <<config, pc, attr, gate, matchingLabels, queries, result, calls>>]_vars

\* Validate has succeeded on a plugin whose client was installed
C22_Witness ==
    /\ pc = "validated" /\ client = "client" /\ result = ErrNil

====
